---- MODULE Spec2Model ----
(***************************************************************************)
(* Model of nuxt-background-removal:                                       *)
(*   - pages/index.vue            (Index: session start / stop)            *)
(*   - components/CanvasPublisher.vue (OtPublisher: camera acquisition,    *)
(*     segmentation model load, compositing loop, publish, stop)           *)
(*   - pages/videoRecorder.vue    (VideoRecorder: media stream toggle,     *)
(*     canvas render loop, startRecording)                                 *)
(* Every await is a suspension point; the code between two awaits runs as  *)
(* one action (JavaScript run-to-completion, microtasks included).         *)
(***************************************************************************)
EXTENDS Integers, Sequences, FiniteSets, TLC

\* ------------------------------------------------------------------ bounds
\* pixels of the canvas (videoWidth * videoHeight, scaled down)
NPix == 2
\* tracks a camera stream can carry
MaxTracks == 2
\* Index.start() clicks explored
MaxStarts == 2
\* VideoRecorder.initMediaStream() calls explored
MaxInits == 2
\* startRecording calls
MaxRecordings == 2
\* chunks one recorder hands over
MaxChunks == 2

\* ------------------------------------------------------- program constants
\* delay of the worker timer that reschedules renderCanvas
TimerDelay == 30

\* ------------------------------------------------------------------- state
VARIABLES
    \* ---- Index (pages/index.vue)
    envTokens,        \* the ones of API_KEY, SESSION_ID and OT_TOKEN that are set
    envError,         \* start() has thrown 'Could not get env tokens'
    sessions,         \* sessions made by OT.initSession, by number: their state
    session,          \* Index.session: 0 is null, else a session number
    alerts,           \* alert() calls made by the connect callback
    \* ---- OtPublisher (components/CanvasPublisher.vue)
    mountedPc,        \* position of mounted()/initCanvasPublisher()
    mountError,       \* the error mounted() was rejected with
    startPc,          \* position of startCanvasRendering()
    startError,       \* the error startCanvasRendering() was rejected with
    backgroundImage,  \* this.backgroundImage is set
    srcObject,        \* localVideo.srcObject: 0 is null, else a stream number
    streams,          \* streams getUserMedia resolved with: the state of each track
    gumRequests,      \* getUserMedia calls made by the page
    playFired,        \* playPromise is resolved
    loadeddataFired,  \* loadeddataPromise is resolved
    publisher,        \* this.publisher: "null", "live" or "destroyed"
    publishCalls,     \* sessions session.publish() was called on, in order
    videoSource,      \* videoSource option OT.initPublisher was given ("none" before)
    processCanvas,    \* this.processCanvas
    rcTimers,         \* pending worker timers: the delay of each
    rcAwaiting,       \* renderCanvas calls awaiting segmentPerson: the frame given
    videoFrame,       \* the frame localVideo currently shows
    cloneCanvas,      \* pixel buffer of the off-screen (clone) canvas
    outputCanvas,     \* pixel buffer of the output canvas
    segmentation,     \* segmentation.data of the latest renderCanvas call
    pixelsRead,       \* imgData.data of that call as getImageData returned it
    ops,              \* steps of the latest renderCanvas call, in order
    stopCalled,       \* stop() has been invoked
    stopError,        \* the latest stop() threw (srcObject was null)
    stopInFlight,     \* renderCanvas calls awaiting segmentPerson when stop() last ran
    doneAfterStop,    \* renderCanvas calls completed since the first stop() (capped at 2)
    tabVisible,       \* the tab is visible
    \* ---- the browser
    page,             \* the page it shows: "index" or "videoRecorder"
    videoInput,       \* enumerateDevices lists a device of kind 'videoinput'
    \* ---- VideoRecorder (pages/videoRecorder.vue)
    mediaStreamStatus, \* this.mediaStreamStatus
    vrMounted,        \* mounted() has been called
    vrStopError,      \* what stopMediaStream() threw, "none" if it never threw
    vrInits,          \* initMediaStream calls, by number: the position of each
    vrPlayListeners,  \* 'play' listeners added to localVideo
    vrPlayPending,    \* localVideo.play() was called and 'play' has not fired yet
    recordingStatus,  \* this.recordingStatus
    recordings,       \* startRecording calls, by number: recorder, data, promises
    recordingSrc,     \* recordingVideo.src: the blob it points to
    downloadHref      \* downloadButton.href: the blob it points to

idxVars == <<envTokens, envError, sessions, session, alerts>>
mountVars == <<mountedPc, mountError, backgroundImage, playFired,
               loadeddataFired, publishCalls, videoSource>>
cpVars == <<mountedPc, mountError, startPc, startError, backgroundImage, playFired,
            loadeddataFired, publisher, publishCalls, videoSource, processCanvas, rcAwaiting,
            cloneCanvas, segmentation, pixelsRead, ops, stopCalled, stopError,
            stopInFlight, doneAfterStop>>
vrVars == <<mediaStreamStatus, vrMounted, vrStopError, vrInits, vrPlayListeners,
           vrPlayPending>>
recVars == <<recordingStatus, recordings, recordingSrc, downloadHref>>
streamVars == <<srcObject, streams>>
startVars == <<startPc, startError>>
loopVars == <<rcTimers, rcAwaiting, cloneCanvas, outputCanvas, segmentation,
              pixelsRead, ops, doneAfterStop>>
stopVars == <<stopCalled, stopError, stopInFlight>>

vars == <<envTokens, envError, sessions, session, alerts,
          mountedPc, mountError, startPc, startError, backgroundImage,
          srcObject, streams, gumRequests, playFired, loadeddataFired,
          publisher, publishCalls, videoSource, processCanvas, rcTimers, rcAwaiting,
          videoFrame, cloneCanvas, outputCanvas, segmentation, pixelsRead, ops,
          stopCalled, stopError, stopInFlight, doneAfterStop, tabVisible,
          page, videoInput, mediaStreamStatus, vrMounted, vrStopError, vrInits,
          vrPlayListeners,
          vrPlayPending, recordingStatus, recordings, recordingSrc, downloadHref>>

\* ------------------------------------------------------------ pixel buffers
\* colours a camera pixel can take (R, G, B); a video frame is opaque
Colours == {<<10, 20, 30>>, <<200, 100, 50>>}
\* colour of the (opaque) background image
BackgroundColour == <<7, 8, 9>>

\* the byte at 0-based index k of a buffer
At(buf, k) == buf[k + 1]

\* flat RGBA buffer of an opaque image given by its pixel colours
Opaque(cols) ==
    [k \in 1..(4 * Len(cols)) |->
        IF (k - 1) % 4 = 3 THEN 255 ELSE cols[((k - 1) \div 4) + 1][((k - 1) % 4) + 1]]

\* every frame the camera can deliver
AllFrames == [1..NPix -> Colours]
\* the frames the camera alternates between while the whole page is explored
LoopFrames == {[p \in 1..NPix |-> <<10, 20, 30>>],
               [p \in 1..NPix |-> IF p = 1 THEN <<200, 100, 50>> ELSE <<10, 20, 30>>]}
BlankFrame == [p \in 1..NPix |-> <<10, 20, 30>>]

\* a canvas that was never drawn on: transparent black
EmptyCanvas == [k \in 1..(4 * NPix) |-> 0]
BackgroundPixels == Opaque([p \in 1..NPix |-> BackgroundColour])

\* segmentation.data: one 0/1 entry per pixel, as long as the library makes it
AllSegmentations == UNION {[1..n -> {0, 1}] : n \in (NPix - 1)..(NPix + 1)}
LoopSegmentations == {[p \in 1..NPix |-> 1],
                      [p \in 1..NPix |-> IF p = 1 THEN 0 ELSE 1],
                      [p \in 1..(NPix - 1) |-> 0]}

\* context.drawImage(src, 0, 0, w, h): source-over compositing, alpha 0 or 255
DrawImage(dest, src) ==
    [k \in 1..Len(dest) |->
        IF src[4 * ((k - 1) \div 4) + 4] = 0 THEN dest[k] ELSE src[k]]

\* segmentation.data[k]: -1 stands for undefined (k beyond the array)
SegAt(seg, k) == IF k < Len(seg) THEN seg[k + 1] ELSE -1

\* the loop reading segmentation.data[i] where the code reads data[i / 4]
RECURSIVE MaskLoopWrongIndex(_, _, _)
MaskLoopWrongIndex(pixels, seg, i) ==
    IF i < Len(pixels)
    THEN MaskLoopWrongIndex(IF SegAt(seg, i) = 0
                            THEN [pixels EXCEPT ![i + 3 + 1] = 0]
                            ELSE pixels,
                            seg, i + 4)
    ELSE pixels

\* the loop clearing every pixel that is not classified 1, where the code
\* clears the pixels classified 0
RECURSIVE MaskLoopNotForeground(_, _, _)
MaskLoopNotForeground(pixels, seg, i) ==
    IF i < Len(pixels)
    THEN MaskLoopNotForeground(IF SegAt(seg, i \div 4) # 1
                               THEN [pixels EXCEPT ![i + 3 + 1] = 0]
                               ELSE pixels,
                               seg, i + 4)
    ELSE pixels

\* for (let i = 0; i < pixels.length; i += 4)
\*     if (segmentation.data[i / 4] === 0) pixels[i + 3] = 0
RECURSIVE MaskLoop(_, _, _)
MaskLoop(pixels, seg, i) ==
    IF i < Len(pixels)
    THEN MaskLoop(IF SegAt(seg, i \div 4) = 0
                  THEN [pixels EXCEPT ![i + 3 + 1] = 0]
                  ELSE pixels,
                  seg, i + 4)
    ELSE pixels

\* the statements with the two draws on the output canvas exchanged
RenderStepsSwapped == <<"drawVideo", "getImageData", "maskPixels", "putImageData",
                        "drawClone", "drawBackground">>

\* the statements of renderCanvas after the await, in program order
RenderSteps == <<"drawVideo", "getImageData", "maskPixels", "putImageData",
                 "drawBackground", "drawClone">>

\* effect of one statement on the buffers
ApplyStep(step, st, frame, seg) ==
    CASE step = "drawVideo"      -> [st EXCEPT !.clone = DrawImage(st.clone, Opaque(frame))]
      [] step = "getImageData"   -> [st EXCEPT !.img = st.clone, !.read = st.clone]
      [] step = "maskPixels"     -> [st EXCEPT !.img = MaskLoop(st.img, seg, 0)]
      [] step = "putImageData"   -> [st EXCEPT !.clone = st.img]
      [] step = "drawBackground" -> [st EXCEPT !.out = DrawImage(st.out, BackgroundPixels)]
      [] step = "drawClone"      -> [st EXCEPT !.out = DrawImage(st.out, st.clone)]

RECURSIVE RunSteps(_, _, _, _)
RunSteps(steps, st, frame, seg) ==
    IF steps = <<>> THEN st
    ELSE RunSteps(Tail(steps), ApplyStep(Head(steps), st, frame, seg), frame, seg)

\* rescheduling that does not look at the flag
RescheduleAlways(flag, timers) == Append(timers, TimerDelay)

\* the timers pending after the check of line 155
Reschedule(flag, timers) == IF flag THEN Append(timers, TimerDelay) ELSE timers

\* what recordingVideo.src and downloadButton.href point to before a recording
NoBlob == [call |-> 0, type |-> "none", parts |-> <<>>]

\* the variables Index.start() reads from process.env
Tokens == {"API_KEY", "SESSION_ID", "OT_TOKEN"}

\* ------------------------------------------------------------------- Init
Init ==
    /\ envTokens \in SUBSET Tokens
    /\ envError = FALSE
    /\ sessions = <<>>
    /\ session = 0
    /\ alerts = 0
    /\ mountedPc = "unmounted"
    /\ mountError = "none"
    /\ startPc = "idle"
    /\ startError = "none"
    /\ backgroundImage = FALSE
    /\ srcObject = 0
    /\ streams = <<>>
    /\ gumRequests = 0
    /\ playFired = FALSE
    /\ loadeddataFired = FALSE
    /\ publisher = "null"
    /\ publishCalls = <<>>
    /\ videoSource = "none"
    /\ processCanvas = FALSE
    /\ rcTimers = <<>>
    /\ rcAwaiting = <<>>
    /\ videoFrame = BlankFrame
    /\ cloneCanvas = EmptyCanvas
    /\ outputCanvas = EmptyCanvas
    /\ segmentation = <<>>
    /\ pixelsRead = EmptyCanvas
    /\ ops = <<>>
    /\ stopCalled = FALSE
    /\ stopError = FALSE
    /\ stopInFlight = 0
    /\ doneAfterStop = 0
    /\ tabVisible = TRUE
    /\ page \in {"index", "videoRecorder"}
    /\ videoInput \in BOOLEAN
    /\ mediaStreamStatus = "initial"
    /\ vrMounted = FALSE
    /\ vrStopError = "none"
    /\ vrInits = <<>>
    /\ vrPlayListeners = 0
    /\ vrPlayPending = FALSE
    /\ recordingStatus = "initial"
    /\ recordings = <<>>
    /\ recordingSrc = NoBlob
    /\ downloadHref = NoBlob

\* ------------------------------------------------------------------ Index
\* !apiKey || !sessionId || !token (line 111)
EnvMissing(env) ==
    "API_KEY" \notin env \/ "SESSION_ID" \notin env \/ "OT_TOKEN" \notin env

\* Index.start()
IndexStart ==
    /\ page = "index"
    /\ IF EnvMissing(envTokens)
       THEN /\ envError' = TRUE
            /\ UNCHANGED sessions
       ELSE /\ Len(sessions) < MaxStarts
            /\ sessions' = Append(sessions, "connecting")
            /\ UNCHANGED envError
    /\ UNCHANGED <<page, videoInput, recVars, vrVars, envTokens, session, alerts, mountVars,
                   gumRequests, streamVars, startVars, loopVars,
                   stopVars, publisher, processCanvas, videoFrame, tabVisible>>

\* a connect callback that sets Index.session whether or not err is set
ConnectCallbackIgnoresErr(i, err) ==
    /\ page = "index"
    /\ i \in 1..Len(sessions)
    /\ sessions[i] = "connecting"
    /\ IF err
       THEN /\ sessions' = [sessions EXCEPT ![i] = "failed"]
            /\ alerts' = alerts + 1
            /\ session' = i
            /\ IF mountedPc = "unmounted"
               THEN /\ backgroundImage' = TRUE
                    /\ mountedPc' = "enumerateDevices"
               ELSE UNCHANGED <<mountedPc, backgroundImage>>
       ELSE /\ sessions' = [sessions EXCEPT ![i] = "connected"]
            /\ session' = i
            /\ UNCHANGED alerts
            /\ IF mountedPc = "unmounted"
               THEN /\ backgroundImage' = TRUE
                    /\ mountedPc' = "enumerateDevices"
               ELSE UNCHANGED <<mountedPc, backgroundImage>>
    /\ UNCHANGED <<page, videoInput, recVars, vrVars, envTokens, envError, mountError, gumRequests, playFired,
                   loadeddataFired, publishCalls, videoSource, streamVars, startVars, loopVars,
                   stopVars, publisher, processCanvas, videoFrame, tabVisible>>

\* callback of session.connect; setting Index.session renders CanvasPublisher
\* (v-if="session"), whose created() and mounted() then run
ConnectCallback(i, err) ==
    /\ page = "index"
    /\ i \in 1..Len(sessions)
    /\ sessions[i] = "connecting"
    /\ IF err
       THEN /\ sessions' = [sessions EXCEPT ![i] = "failed"]
            /\ alerts' = alerts + 1
            /\ UNCHANGED <<session, mountedPc, backgroundImage>>
       ELSE /\ sessions' = [sessions EXCEPT ![i] = "connected"]
            /\ session' = i
            /\ UNCHANGED alerts
            /\ IF mountedPc = "unmounted"
               THEN /\ backgroundImage' = TRUE
                    /\ mountedPc' = "enumerateDevices"
               ELSE UNCHANGED <<mountedPc, backgroundImage>>
    /\ UNCHANGED <<page, videoInput, recVars, vrVars, envTokens, envError, mountError, gumRequests, playFired,
                   loadeddataFired, publishCalls, videoSource, streamVars, startVars, loopVars,
                   stopVars, publisher, processCanvas, videoFrame, tabVisible>>

\* the numbers of tracks a camera stream comes with
TrackCounts == {1, MaxTracks}

\* stopping the first track only
StopFirstTrack(ts) == [k \in 1..Len(ts) |-> IF k = 1 THEN "ended" ELSE ts[k]]

\* stream.getTracks().forEach(track => track.stop())
StopTracks(ts) == [k \in 1..Len(ts) |-> "ended"]

\* this.session?.disconnect()
Disconnect(ss, s) == IF s # 0 THEN [ss EXCEPT ![s] = "disconnected"] ELSE ss

\* a stop() that also drops the renderCanvas call awaiting segmentPerson
IndexStopCancels ==
    /\ page = "index"
    /\ IF mountedPc # "unmounted"
       THEN /\ publisher' = IF publisher = "null" THEN "null" ELSE "destroyed"
            /\ processCanvas' = FALSE
            /\ stopCalled' = TRUE
            /\ stopInFlight' = Len(rcAwaiting)
            /\ rcAwaiting' = <<>>
            /\ IF srcObject = 0
               THEN /\ stopError' = TRUE
                    /\ UNCHANGED <<streams, sessions>>
               ELSE /\ stopError' = FALSE
                    /\ streams' = [streams EXCEPT ![srcObject] = StopTracks(@)]
                    /\ sessions' = Disconnect(sessions, session)
       ELSE /\ sessions' = Disconnect(sessions, session)
            /\ UNCHANGED <<publisher, processCanvas, stopCalled, stopError,
                           stopInFlight, streams, rcAwaiting>>
    /\ UNCHANGED <<page, videoInput, recVars, vrVars, envTokens, envError, session, alerts,
                   mountVars, srcObject, gumRequests, startVars, rcTimers,
                   cloneCanvas, outputCanvas, segmentation, pixelsRead, ops,
                   doneAfterStop,
                   videoFrame, tabVisible>>

\* Index.stop(): canvasPublisher?.stop() then session?.disconnect();
\* OtPublisher.stop() throws a TypeError on a null srcObject, after it has
\* cleared the flag, and the disconnect is then skipped
IndexStop ==
    /\ page = "index"
    /\ IF mountedPc # "unmounted"
       THEN /\ publisher' = IF publisher = "null" THEN "null" ELSE "destroyed"
            /\ processCanvas' = FALSE
            /\ stopCalled' = TRUE
            /\ stopInFlight' = Len(rcAwaiting)
            /\ IF srcObject = 0
               THEN /\ stopError' = TRUE
                    /\ UNCHANGED <<streams, sessions>>
               ELSE /\ stopError' = FALSE
                    /\ streams' = [streams EXCEPT ![srcObject] = StopTracks(@)]
                    /\ sessions' = Disconnect(sessions, session)
       ELSE /\ sessions' = Disconnect(sessions, session)
            /\ UNCHANGED <<publisher, processCanvas, stopCalled, stopError,
                           stopInFlight, streams>>
    /\ UNCHANGED <<page, videoInput, recVars, vrVars, envTokens, envError, session, alerts,
                   mountVars, srcObject, gumRequests, startVars, loopVars,
                   videoFrame, tabVisible>>

\* ------------------------------------------------------------ OtPublisher
\* initCanvasPublisher going on to getUserMedia without the device check
EnumerateDevicesNoCheck ==
    /\ page = "index"
    /\ mountedPc = "enumerateDevices"
    /\ mountedPc' = "getUserMedia"
    /\ gumRequests' = gumRequests + 1
    /\ UNCHANGED mountError
    /\ UNCHANGED <<page, videoInput, recVars, vrVars, idxVars, backgroundImage, playFired, loadeddataFired, publishCalls, videoSource,
                   streamVars, startVars, loopVars, stopVars, publisher,
                   processCanvas, videoFrame, tabVisible>>

\* initCanvasPublisher resumes from enumerateDevices (lines 78-92)
EnumerateDevicesResolve ==
    /\ page = "index"
    /\ mountedPc = "enumerateDevices"
    /\ IF videoInput
       THEN /\ mountedPc' = "getUserMedia"
            /\ gumRequests' = gumRequests + 1
            /\ UNCHANGED mountError
       ELSE /\ mountedPc' = "rejected"
            /\ mountError' = "Could not get video device"
            /\ UNCHANGED gumRequests
    /\ UNCHANGED <<page, videoInput, recVars, vrVars, idxVars, backgroundImage, playFired, loadeddataFired, publishCalls, videoSource,
                   streamVars, startVars, loopVars, stopVars, publisher,
                   processCanvas, videoFrame, tabVisible>>

\* getUserMedia resolves with a stream of n tracks (lines 85-107)
GetUserMediaResolve(n) ==
    /\ page = "index"
    /\ mountedPc = "getUserMedia"
    /\ streams' = Append(streams, [k \in 1..n |-> "live"])
    /\ srcObject' = Len(streams')
    /\ mountedPc' = "events"
    /\ UNCHANGED <<page, videoInput, recVars, vrVars, idxVars, mountError, backgroundImage, gumRequests, playFired,
                   loadeddataFired, publishCalls, videoSource, startVars, loopVars, stopVars,
                   publisher, processCanvas, videoFrame, tabVisible>>

\* getUserMedia rejects (permission denied, device busy)
GetUserMediaReject ==
    /\ page = "index"
    /\ mountedPc = "getUserMedia"
    /\ mountedPc' = "rejected"
    /\ mountError' = "getUserMedia rejected"
    /\ UNCHANGED <<page, videoInput, recVars, vrVars, idxVars, backgroundImage, gumRequests, playFired, loadeddataFired,
                   publishCalls, videoSource, streamVars, startVars, loopVars, stopVars,
                   publisher, processCanvas, videoFrame, tabVisible>>

\* the synchronous head of startCanvasRendering (lines 113-117); its promise
\* is not awaited by initCanvasPublisher (line 109)
StartCanvasRendering(ctxOk) ==
    IF ctxOk
    THEN /\ startPc' = "load"
         /\ UNCHANGED startError
    ELSE /\ startPc' = "rejected"
         /\ startError' = "Could not get canvas context to start canvas rendering"

\* get canvasVideoTrack(): the video track captured from the output canvas
canvasVideoTrack == "outputCanvas"

\* mounted() after initCanvasPublisher resolved (lines 62-68)
MountedContinue ==
    /\ publisher' = "live"
    /\ videoSource' = canvasVideoTrack
    /\ publishCalls' = Append(publishCalls, session)
    /\ mountedPc' = "done"

\* a chain that goes on at the first of the two events, as Promise.race would
VideoEventRace(ev, ctxOk) ==
    /\ page = "index"
    /\ mountedPc = "events"
    /\ \/ ev = "play" /\ ~playFired /\ playFired' = TRUE /\ UNCHANGED loadeddataFired
       \/ ev = "loadeddata" /\ ~loadeddataFired /\ loadeddataFired' = TRUE
          /\ UNCHANGED playFired
    /\ IF playFired' \/ loadeddataFired'
       THEN /\ StartCanvasRendering(ctxOk)
            /\ MountedContinue
       ELSE /\ ctxOk
            /\ UNCHANGED <<startVars, publisher, publishCalls, videoSource, mountedPc>>
    /\ UNCHANGED <<page, videoInput, recVars, vrVars, idxVars, mountError, backgroundImage, gumRequests, streamVars,
                   loopVars, stopVars, processCanvas, videoFrame, tabVisible>>

\* a 'play' or 'loadeddata' event of localVideo; the second of the two
\* resolves Promise.all (line 108) and the rest of the chain runs
VideoEvent(ev, ctxOk) ==
    /\ page = "index"
    /\ mountedPc = "events"
    /\ \/ ev = "play" /\ ~playFired /\ playFired' = TRUE /\ UNCHANGED loadeddataFired
       \/ ev = "loadeddata" /\ ~loadeddataFired /\ loadeddataFired' = TRUE
          /\ UNCHANGED playFired
    /\ IF playFired' /\ loadeddataFired'
       THEN /\ StartCanvasRendering(ctxOk)
            /\ MountedContinue
       ELSE /\ ctxOk
            /\ UNCHANGED <<startVars, publisher, publishCalls, videoSource, mountedPc>>
    /\ UNCHANGED <<page, videoInput, recVars, vrVars, idxVars, mountError, backgroundImage, gumRequests, streamVars,
                   loopVars, stopVars, processCanvas, videoFrame, tabVisible>>

\* renderCanvas up to its await (line 133): segmentPerson is given localVideo
RenderCanvasCall(awaiting) == Append(awaiting, videoFrame)

\* a startCanvasRendering that sets the flag before it checks the clone context
BodyPixLoadFlagFirst(cloneOk) ==
    /\ page = "index"
    /\ startPc = "load"
    /\ IF cloneOk
       THEN /\ processCanvas' = TRUE
            /\ rcAwaiting' = RenderCanvasCall(rcAwaiting)
            /\ ops' = <<"segmentPerson">>
            /\ startPc' = "started"
            /\ UNCHANGED startError
       ELSE /\ processCanvas' = TRUE
            /\ startPc' = "rejected"
            /\ startError' = "Unable to clone canvas context"
            /\ UNCHANGED <<rcAwaiting, ops>>
    /\ UNCHANGED <<page, videoInput, recVars, vrVars, idxVars, mountVars, gumRequests, streamVars, stopVars, publisher, rcTimers,
                   cloneCanvas, outputCanvas, segmentation, pixelsRead,
                   doneAfterStop, videoFrame, tabVisible>>

\* startCanvasRendering resumes from bodyPix.load (lines 123-128)
BodyPixLoadResolve(cloneOk) ==
    /\ page = "index"
    /\ startPc = "load"
    /\ IF cloneOk
       THEN /\ processCanvas' = TRUE
            /\ rcAwaiting' = RenderCanvasCall(rcAwaiting)
            /\ ops' = <<"segmentPerson">>
            /\ startPc' = "started"
            /\ UNCHANGED startError
       ELSE /\ startPc' = "rejected"
            /\ startError' = "Unable to clone canvas context"
            /\ UNCHANGED <<processCanvas, rcAwaiting, ops>>
    /\ UNCHANGED <<page, videoInput, recVars, vrVars, idxVars, mountVars, gumRequests, streamVars, stopVars, publisher, rcTimers,
                   cloneCanvas, outputCanvas, segmentation, pixelsRead,
                   doneAfterStop, videoFrame, tabVisible>>

\* bodyPix.load rejects (the model cannot be fetched)
BodyPixLoadReject ==
    /\ page = "index"
    /\ startPc = "load"
    /\ startPc' = "rejected"
    /\ startError' = "bodyPix.load rejected"
    /\ UNCHANGED <<page, videoInput, recVars, vrVars, idxVars, mountVars, gumRequests, streamVars, stopVars, loopVars, publisher,
                   processCanvas, videoFrame, tabVisible>>

\* a timer that, like requestAnimationFrame, only fires in a visible tab
ThrottledTimerFire ==
    /\ tabVisible
    /\ page = "index"
    /\ rcTimers # <<>>
    /\ rcTimers' = Tail(rcTimers)
    /\ rcAwaiting' = RenderCanvasCall(rcAwaiting)
    /\ ops' = <<"segmentPerson">>
    /\ UNCHANGED <<page, videoInput, recVars, vrVars, idxVars, mountVars, gumRequests, streamVars, startVars, stopVars, publisher,
                   processCanvas, cloneCanvas, outputCanvas, segmentation,
                   pixelsRead, doneAfterStop, videoFrame, tabVisible>>

\* a timer that stays set after it fired, as setInterval would
IntervalTimerFire ==
    /\ page = "index"
    /\ rcTimers # <<>>
    /\ rcTimers' = rcTimers
    /\ rcAwaiting' = RenderCanvasCall(rcAwaiting)
    /\ ops' = <<"segmentPerson">>
    /\ UNCHANGED <<page, videoInput, recVars, vrVars, idxVars, mountVars, gumRequests, streamVars, startVars, stopVars, publisher,
                   processCanvas, cloneCanvas, outputCanvas, segmentation,
                   pixelsRead, doneAfterStop, videoFrame, tabVisible>>

\* a worker timer fires, in a visible or a hidden tab alike, and calls renderCanvas
WorkerTimerFire ==
    /\ page = "index"
    /\ rcTimers # <<>>
    /\ rcTimers' = Tail(rcTimers)
    /\ rcAwaiting' = RenderCanvasCall(rcAwaiting)
    /\ ops' = <<"segmentPerson">>
    /\ UNCHANGED <<page, videoInput, recVars, vrVars, idxVars, mountVars, gumRequests, streamVars, startVars, stopVars, publisher,
                   processCanvas, cloneCanvas, outputCanvas, segmentation,
                   pixelsRead, doneAfterStop, videoFrame, tabVisible>>

\* renderCanvas resumes from segmentPerson with segmentation.data = seg
\* (lines 140-157)
RenderCanvasResume(seg) ==
    /\ page = "index"
    /\ rcAwaiting # <<>>
    /\ rcAwaiting' = Tail(rcAwaiting)
    /\ LET st == RunSteps(RenderSteps,
                          [clone |-> cloneCanvas, out |-> outputCanvas,
                           img |-> <<>>, read |-> <<>>],
                          videoFrame, seg)
       IN  /\ cloneCanvas' = st.clone
           /\ outputCanvas' = st.out
           /\ pixelsRead' = st.read
    /\ segmentation' = seg
    /\ backgroundImage  \* set by created() before mounted(): line 150 never throws
    /\ rcTimers' = Reschedule(processCanvas, rcTimers)
    /\ ops' = ops \o <<"segmented">> \o RenderSteps \o <<"readFlag">>
                  \o (IF Len(rcTimers') > Len(rcTimers) THEN <<"setTimeout">> ELSE <<>>)
    /\ doneAfterStop' = IF stopCalled /\ doneAfterStop < 2
                        THEN doneAfterStop + 1 ELSE doneAfterStop
    /\ UNCHANGED <<page, videoInput, recVars, vrVars, idxVars, mountVars, gumRequests, streamVars, startVars, stopVars, publisher,
                   processCanvas, videoFrame, tabVisible>>

\* ---------------------------------------------------------- VideoRecorder
\* worker timer delay of VideoRecorder.renderCanvas, 1000 / 30 ms (whole ms)
RecorderTimerDelay == 1000 \div 30

\* initMediaStream up to its first await (line 77)
InitMediaStream(inits) == Append(inits, "enumerateDevices")

\* VideoRecorder.mounted()
VRMounted ==
    /\ page = "videoRecorder"
    /\ ~vrMounted
    /\ vrMounted' = TRUE
    /\ vrInits' = InitMediaStream(vrInits)
    /\ UNCHANGED <<page, videoInput, recVars, idxVars, cpVars, streamVars, gumRequests, rcTimers,
                   outputCanvas, videoFrame, tabVisible, mediaStreamStatus,
                   vrStopError, vrPlayListeners, vrPlayPending>>

\* an initMediaStream that sets the status before the stream is attached
VREnumerateDevicesEarlyStatus(c) ==
    /\ page = "videoRecorder"
    /\ c \in 1..Len(vrInits)
    /\ vrInits[c] = "enumerateDevices"
    /\ IF videoInput
       THEN /\ vrInits' = [vrInits EXCEPT ![c] = "getUserMedia"]
            /\ gumRequests' = gumRequests + 1
            /\ mediaStreamStatus' = "started"
       ELSE /\ vrInits' = [vrInits EXCEPT ![c] = "rejected"]
            /\ UNCHANGED <<gumRequests, mediaStreamStatus>>
    /\ UNCHANGED <<page, videoInput, recVars, idxVars, cpVars, streamVars, rcTimers, outputCanvas,
                   videoFrame, tabVisible, vrMounted, vrStopError,
                   vrPlayListeners, vrPlayPending>>

\* initMediaStream call c resumes from enumerateDevices (lines 78-91)
VREnumerateDevicesResolve(c) ==
    /\ page = "videoRecorder"
    /\ c \in 1..Len(vrInits)
    /\ vrInits[c] = "enumerateDevices"
    /\ IF videoInput
       THEN /\ vrInits' = [vrInits EXCEPT ![c] = "getUserMedia"]
            /\ gumRequests' = gumRequests + 1
       ELSE /\ vrInits' = [vrInits EXCEPT ![c] = "rejected"]
            /\ UNCHANGED gumRequests
    /\ UNCHANGED <<page, videoInput, recVars, idxVars, cpVars, streamVars, rcTimers, outputCanvas,
                   videoFrame, tabVisible, mediaStreamStatus, vrMounted, vrStopError,
                   vrPlayListeners, vrPlayPending>>

\* initMediaStream call c resumes from getUserMedia with a stream of n tracks
\* (lines 84-99)
VRGetUserMediaResolve(c, n) ==
    /\ page = "videoRecorder"
    /\ c \in 1..Len(vrInits)
    /\ vrInits[c] = "getUserMedia"
    /\ streams' = Append(streams, [k \in 1..n |-> "live"])
    /\ srcObject' = Len(streams')
    /\ vrPlayListeners' = vrPlayListeners + 1
    /\ vrPlayPending' = TRUE
    /\ mediaStreamStatus' = "started"
    /\ vrInits' = [vrInits EXCEPT ![c] = "done"]
    /\ UNCHANGED <<page, videoInput, recVars, idxVars, cpVars, gumRequests, rcTimers, outputCanvas,
                   videoFrame, tabVisible, vrMounted, vrStopError>>

\* getUserMedia of initMediaStream call c rejects
VRGetUserMediaReject(c) ==
    /\ page = "videoRecorder"
    /\ c \in 1..Len(vrInits)
    /\ vrInits[c] = "getUserMedia"
    /\ vrInits' = [vrInits EXCEPT ![c] = "rejected"]
    /\ UNCHANGED <<page, videoInput, recVars, idxVars, cpVars, streamVars, gumRequests, rcTimers,
                   outputCanvas, videoFrame, tabVisible, mediaStreamStatus,
                   vrMounted, vrStopError, vrPlayListeners, vrPlayPending>>

\* stopMediaStream() (lines 102-109); throws on a null srcObject
StopMediaStream ==
    IF srcObject = 0
    THEN /\ vrStopError' = "Could not get local stream to stop"
         /\ UNCHANGED <<streams, mediaStreamStatus>>
    ELSE /\ streams' = [streams EXCEPT ![srcObject] = StopTracks(@)]
         /\ mediaStreamStatus' = "stopped"
         /\ UNCHANGED vrStopError

\* toggleMediaStream() (lines 122-132)
ToggleMediaStream ==
    /\ page = "videoRecorder"
    /\ IF mediaStreamStatus \in {"initial", "stopped"}
       THEN /\ Len(vrInits) < MaxInits
            /\ vrInits' = InitMediaStream(vrInits)
            /\ UNCHANGED <<streams, mediaStreamStatus, vrStopError>>
       ELSE /\ StopMediaStream
            /\ UNCHANGED vrInits
    /\ UNCHANGED <<page, videoInput, recVars, idxVars, cpVars, srcObject, gumRequests, rcTimers,
                   outputCanvas, videoFrame, tabVisible, vrMounted,
                   vrPlayListeners, vrPlayPending>>

\* VideoRecorder.renderCanvas() run n times in a row (lines 111-120): each run
\* draws localVideo and sets one worker timer; a null context throws instead
VRRenderCanvas(n, ctxOk) ==
    IF ctxOk /\ n > 0
    THEN /\ outputCanvas' = DrawImage(outputCanvas, Opaque(videoFrame))
         /\ rcTimers' = rcTimers \o [k \in 1..n |-> RecorderTimerDelay]
    ELSE UNCHANGED <<outputCanvas, rcTimers>>

\* the 'play' event of localVideo: every listener added so far calls renderCanvas
VRPlayEvent(ctxOk) ==
    /\ page = "videoRecorder"
    /\ vrPlayPending
    /\ vrPlayPending' = FALSE
    /\ VRRenderCanvas(vrPlayListeners, ctxOk)
    /\ UNCHANGED <<page, videoInput, recVars, idxVars, cpVars, streamVars, gumRequests, videoFrame,
                   tabVisible, mediaStreamStatus, vrMounted, vrStopError, vrInits,
                   vrPlayListeners>>

\* a worker timer of the recorder page fires and calls renderCanvas
VRTimerFire(ctxOk) ==
    /\ page = "videoRecorder"
    /\ rcTimers # <<>>
    /\ IF ctxOk
       THEN /\ outputCanvas' = DrawImage(outputCanvas, Opaque(videoFrame))
            /\ rcTimers' = Append(Tail(rcTimers), RecorderTimerDelay)
       ELSE /\ rcTimers' = Tail(rcTimers)
            /\ UNCHANGED outputCanvas
    /\ UNCHANGED <<page, videoInput, recVars, idxVars, cpVars, streamVars, gumRequests, videoFrame,
                   tabVisible, vrVars>>

\* ------------------------------------------- VideoRecorder.startRecording
\* delay of the timer that stops the recorder (line 154), in ms
RecordingTimeout == 30000

\* a call of startRecording at its await (lines 135-156): the recorder is
\* recording, data is empty, both promises are pending and the timer is set
NewRecording ==
    [state |-> "recording", events |-> <<>>, emitted |-> 0, data |-> <<>>,
     timer |-> <<RecordingTimeout>>, stopped |-> "pending", recorded |-> FALSE,
     pc |-> "awaiting", stopThrew |-> FALSE]

\* new Blob(data, { type: 'video/webm' }) of call c (line 163)
RecordedBlob(c, data) == [call |-> c, type |-> "video/webm", parts |-> data]

\* await Promise.all([stopped, recorded]) (lines 156-159): where call r is then
AwaitAll(r) ==
    IF r.pc # "awaiting" THEN r.pc
    ELSE IF r.stopped = "rejected" THEN "rejected"
    ELSE IF r.stopped = "resolved" /\ r.recorded THEN "done"
    ELSE "awaiting"

\* call c becomes r; when this resolves Promise.all the rest of
\* startRecording runs (lines 161-166)
Settle(c, r) ==
    /\ recordings' = [recordings EXCEPT ![c] = [r EXCEPT !.pc = AwaitAll(r)]]
    /\ IF r.pc = "awaiting" /\ AwaitAll(r) = "done"
       THEN /\ recordingStatus' = "stopped"
            /\ recordingSrc' = RecordedBlob(c, r.data)
            /\ downloadHref' = RecordedBlob(c, r.data)
       ELSE UNCHANGED <<recordingStatus, recordingSrc, downloadHref>>

\* startRecording() up to its await (lines 135-156)
StartRecording ==
    /\ page = "videoRecorder"
    /\ Len(recordings) < MaxRecordings
    /\ recordingStatus' = "started"
    /\ recordings' = Append(recordings, NewRecording)
    /\ UNCHANGED <<page, videoInput, idxVars, cpVars, streamVars, gumRequests,
                   rcTimers, outputCanvas, videoFrame, tabVisible, vrVars,
                   recordingSrc, downloadHref>>

\* recorder.ondataavailable of call c (line 141): a chunk the recorder hands
\* over while it records, or the one it hands over when it stops
OnDataAvailable(c) ==
    /\ page = "videoRecorder"
    /\ c \in 1..Len(recordings)
    /\ LET r == recordings[c]
       IN  /\ \/ r.events # <<>> /\ Head(r.events) = "dataavailable"
              \/ r.events = <<>> /\ r.state = "recording"
                                 /\ r.emitted < MaxChunks - 1
           /\ recordings' = [recordings EXCEPT ![c] =
                  [r EXCEPT !.events = IF r.events = <<>> THEN <<>> ELSE Tail(r.events),
                            !.emitted = r.emitted + 1,
                            !.data = Append(r.data, r.emitted + 1)]]
    /\ UNCHANGED <<page, videoInput, idxVars, cpVars, streamVars, gumRequests,
                   rcTimers, outputCanvas, videoFrame, tabVisible, vrVars,
                   recordingStatus, recordingSrc, downloadHref>>

\* the recorder of call c fails while recording: it becomes inactive and
\* fires 'error', then 'dataavailable' and 'stop'
RecorderError(c) ==
    /\ page = "videoRecorder"
    /\ c \in 1..Len(recordings)
    /\ recordings[c].state = "recording"
    /\ recordings[c].events = <<>>
    /\ recordings' = [recordings EXCEPT ![c].state = "inactive",
                         ![c].events = <<"error", "dataavailable", "stop">>]
    /\ UNCHANGED <<page, videoInput, idxVars, cpVars, streamVars, gumRequests,
                   rcTimers, outputCanvas, videoFrame, tabVisible, vrVars,
                   recordingStatus, recordingSrc, downloadHref>>

\* recorder.onerror of call c (line 147): stopped is rejected, and with it
\* Promise.all and the call
OnError(c) ==
    /\ page = "videoRecorder"
    /\ c \in 1..Len(recordings)
    /\ recordings[c].events # <<>>
    /\ Head(recordings[c].events) = "error"
    /\ LET r == recordings[c]
       IN  Settle(c, [r EXCEPT !.events = Tail(r.events),
                               !.stopped = IF r.stopped = "pending"
                                           THEN "rejected" ELSE r.stopped])
    /\ UNCHANGED <<page, videoInput, idxVars, cpVars, streamVars, gumRequests,
                   rcTimers, outputCanvas, videoFrame, tabVisible, vrVars>>

\* recorder.onstop of call c (line 146): stopped is resolved
OnStop(c) ==
    /\ page = "videoRecorder"
    /\ c \in 1..Len(recordings)
    /\ recordings[c].events # <<>>
    /\ Head(recordings[c].events) = "stop"
    /\ LET r == recordings[c]
       IN  Settle(c, [r EXCEPT !.events = Tail(r.events),
                               !.stopped = IF r.stopped = "pending"
                                           THEN "resolved" ELSE r.stopped])
    /\ UNCHANGED <<page, videoInput, idxVars, cpVars, streamVars, gumRequests,
                   rcTimers, outputCanvas, videoFrame, tabVisible, vrVars>>

\* the timer of call c fires (lines 150-154), after the timers set before it:
\* recorder.stop() throws on an inactive recorder and resolve() is not
\* reached; else the recorder stops, fires 'dataavailable' and 'stop', and
\* recorded is resolved
RecordingTimerFire(c) ==
    /\ page = "videoRecorder"
    /\ c \in 1..Len(recordings)
    /\ recordings[c].timer # <<>>
    /\ \A d \in 1..(c - 1) : recordings[d].timer = <<>>
    /\ LET r == recordings[c]
       IN  IF r.state = "inactive"
           THEN Settle(c, [r EXCEPT !.timer = <<>>, !.stopThrew = TRUE])
           ELSE Settle(c, [r EXCEPT !.timer = <<>>,
                                    !.state = "inactive",
                                    !.events = r.events \o <<"dataavailable", "stop">>,
                                    !.recorded = TRUE])
    /\ UNCHANGED <<page, videoInput, idxVars, cpVars, streamVars, gumRequests,
                   rcTimers, outputCanvas, videoFrame, tabVisible, vrVars>>

\* ------------------------------------------------------------ environment
\* the camera delivers the next frame to localVideo
VideoAdvance(f) ==
    /\ srcObject # 0
    /\ \E k \in 1..Len(streams[srcObject]) : streams[srcObject][k] = "live"
    /\ f # videoFrame
    /\ videoFrame' = f
    /\ UNCHANGED <<page, videoInput, recVars, vrVars, idxVars, mountVars, gumRequests, streamVars, startVars, stopVars, loopVars,
                   publisher, processCanvas, tabVisible>>

\* the user switches to another tab, or back
VisibilityChange ==
    /\ tabVisible' = ~tabVisible
    /\ UNCHANGED <<page, videoInput, recVars, vrVars, idxVars, mountVars, gumRequests, streamVars, startVars, stopVars, loopVars,
                   publisher, processCanvas, videoFrame>>

Next ==
    \/ IndexStart
    \/ \E i \in 1..MaxStarts, err \in BOOLEAN : ConnectCallback(i, err)
    \/ IndexStop
    \/ EnumerateDevicesResolve
    \/ \E n \in TrackCounts : GetUserMediaResolve(n)
    \/ GetUserMediaReject
    \/ \E ev \in {"play", "loadeddata"}, ctxOk \in BOOLEAN : VideoEvent(ev, ctxOk)
    \/ \E cloneOk \in BOOLEAN : BodyPixLoadResolve(cloneOk)
    \/ BodyPixLoadReject
    \/ WorkerTimerFire
    \/ \E seg \in LoopSegmentations : RenderCanvasResume(seg)
    \/ \E f \in LoopFrames : VideoAdvance(f)
    \/ VisibilityChange
    \/ VRMounted
    \/ \E c \in 1..MaxInits : VREnumerateDevicesResolve(c)
    \/ \E c \in 1..MaxInits, n \in TrackCounts : VRGetUserMediaResolve(c, n)
    \/ \E c \in 1..MaxInits : VRGetUserMediaReject(c)
    \/ ToggleMediaStream
    \/ \E ctxOk \in BOOLEAN : VRPlayEvent(ctxOk)
    \/ \E ctxOk \in BOOLEAN : VRTimerFire(ctxOk)

Spec == Init /\ [][Next]_vars

\* a worker timer that is set fires once its delay has passed
FairSpec ==
    /\ Spec
    /\ WF_vars(WorkerTimerFire)

\* ---- the compositing loop alone, on every frame and every segmentation
\* the state in which startCanvasRendering has made the first renderCanvas call
InitRender ==
    /\ envTokens = Tokens
    /\ envError = FALSE
    /\ sessions = <<"connected">>
    /\ session = 1
    /\ alerts = 0
    /\ mountedPc = "done"
    /\ mountError = "none"
    /\ startPc = "started"
    /\ startError = "none"
    /\ backgroundImage = TRUE
    /\ srcObject = 1
    /\ streams = << <<"live">> >>
    /\ gumRequests = 1
    /\ playFired = TRUE
    /\ loadeddataFired = TRUE
    /\ publisher = "live"
    /\ publishCalls = <<1>>
    /\ videoSource = canvasVideoTrack
    /\ processCanvas = TRUE
    /\ rcTimers = <<>>
    /\ videoFrame \in AllFrames
    /\ rcAwaiting = <<videoFrame>>
    /\ cloneCanvas = EmptyCanvas
    /\ outputCanvas = EmptyCanvas
    /\ segmentation = <<>>
    /\ pixelsRead = EmptyCanvas
    /\ ops = <<"segmentPerson">>
    /\ stopCalled = FALSE
    /\ stopError = FALSE
    /\ stopInFlight = 0
    /\ doneAfterStop = 0
    /\ tabVisible = TRUE
    /\ page = "index"
    /\ videoInput = TRUE
    /\ mediaStreamStatus = "initial"
    /\ vrMounted = FALSE
    /\ vrStopError = "none"
    /\ vrInits = <<>>
    /\ vrPlayListeners = 0
    /\ vrPlayPending = FALSE
    /\ recordingStatus = "initial"
    /\ recordings = <<>>
    /\ recordingSrc = NoBlob
    /\ downloadHref = NoBlob

NextRender ==
    \/ \E seg \in AllSegmentations : RenderCanvasResume(seg)
    \/ WorkerTimerFire
    \/ \E f \in AllFrames : VideoAdvance(f)
    \/ IndexStop

SpecRender == InitRender /\ [][NextRender]_vars

\* ---- the recorder page's recordings alone: startRecording shares no state
\* with the media stream of the page
InitRecording ==
    /\ Init
    /\ page = "videoRecorder"
    /\ videoInput
    /\ envTokens = Tokens

NextRecording ==
    \/ StartRecording
    \/ \E c \in 1..MaxRecordings : OnDataAvailable(c)
    \/ \E c \in 1..MaxRecordings : RecorderError(c)
    \/ \E c \in 1..MaxRecordings : OnError(c)
    \/ \E c \in 1..MaxRecordings : OnStop(c)
    \/ \E c \in 1..MaxRecordings : RecordingTimerFire(c)

SpecRecording == InitRecording /\ [][NextRecording]_vars

\* a timer that is set fires, and an event the recorder fired is delivered
FairSpecRecording ==
    /\ SpecRecording
    /\ \A c \in 1..MaxRecordings :
          /\ WF_vars(RecordingTimerFire(c))
          /\ WF_vars(OnError(c) \/ OnStop(c))
          /\ WF_vars(/\ c \in 1..Len(recordings)
                     /\ recordings[c].events # <<>>
                     /\ OnDataAvailable(c))

\* ------------------------------------------------------------- properties
Has(seq, x) == \E i \in 1..Len(seq) : seq[i] = x
Pos(seq, x) == IF Has(seq, x) THEN CHOOSE i \in 1..Len(seq) : seq[i] = x ELSE 0
AllEnded(ts) == \A k \in 1..Len(ts) : ts[k] = "ended"
Pixels == 0..(NPix - 1)

\* C1: after stop() at most one renderCanvas call completes, and once that
\* one has completed no worker timer is pending and no call is in flight,
\* whenever stop() was invoked.
StopHaltsLoop ==
    (page = "index" /\ stopCalled) =>
        /\ doneAfterStop <= 1
        /\ doneAfterStop = 1 => (rcTimers = <<>> /\ rcAwaiting = <<>>)

\* C2: a step of OtPublisher.stop() or of VideoRecorder.stopMediaStream()
\* leaves every track of the stream attached to localVideo ended.
StopReleasesAllTracks ==
    [][(IndexStop \/ (ToggleMediaStream /\ mediaStreamStatus = "started"))
        => (srcObject' # 0 => AllEnded(streams'[srcObject']))]_vars

\* C2 witness: stop() has run on an attached stream of several tracks
StoppedSeveralTracks ==
    /\ page = "index"
    /\ stopCalled /\ ~stopError
    /\ srcObject # 0
    /\ Len(streams[srcObject]) >= 2
    /\ AllEnded(streams[srcObject])

\* C3: on the recorder page, when mediaStreamStatus is 'stopped' and no
\* initMediaStream call is in flight, no track of any acquired stream is live.
NoStreamOutlivesStop ==
    (/\ page = "videoRecorder"
     /\ mediaStreamStatus = "stopped"
     /\ \A c \in 1..Len(vrInits) : vrInits[c] \in {"done", "rejected"})
    => \A n \in 1..Len(streams) : AllEnded(streams[n])

\* C4: after the pixel pass, every pixel whose classification is 0 has
\* alpha byte 0.
MaskedPixelsTransparent ==
    \A p \in Pixels : SegAt(segmentation, p) = 0 => At(cloneCanvas, 4 * p + 3) = 0

\* C4 witness: a pass has cleared a background pixel and kept a foreground one
MaskedPixelSeen ==
    /\ \E p \in Pixels : SegAt(segmentation, p) = 0 /\ At(cloneCanvas, 4 * p + 3) = 0
    /\ \E p \in Pixels : SegAt(segmentation, p) = 1 /\ At(cloneCanvas, 4 * p + 3) = 255

\* C5: the pixel pass leaves the R, G and B bytes of every pixel as
\* getImageData returned them, and the alpha byte of every pixel whose
\* classification is not 0.
PassOnlyClearsBackgroundAlpha ==
    \A p \in Pixels :
        /\ \A ch \in 0..2 : At(cloneCanvas, 4 * p + ch) = At(pixelsRead, 4 * p + ch)
        /\ SegAt(segmentation, p) # 0
              => At(cloneCanvas, 4 * p + 3) = At(pixelsRead, 4 * p + 3)

\* C5 witness: a pass over a classification array shorter than the frame
\* cleared pixel 0 and kept the pixel beyond the end of the array
ShortSegmentationPass ==
    /\ Len(segmentation) = NPix - 1
    /\ SegAt(segmentation, 0) = 0
    /\ At(cloneCanvas, 3) = 0
    /\ At(pixelsRead, 3) = 255
    /\ At(cloneCanvas, 4 * (NPix - 1) + 3) = 255

IsOutputDraw(o) == o \in {"drawBackground", "drawClone"}

\* C6: a completed renderCanvas call has run, in this order: inference,
\* the draw of the video frame on the clone, the mask and its flush to the
\* clone, the draw of the background on the output canvas, the draw of the
\* masked clone on top; the output canvas got exactly these two draws and
\* shows the background wherever the clone is transparent.
RenderOrder ==
    (page = "index" /\ Has(ops, "readFlag")) =>
        /\ Pos(ops, "segmented") < Pos(ops, "drawVideo")
        /\ Pos(ops, "drawVideo") < Pos(ops, "maskPixels")
        /\ Pos(ops, "maskPixels") < Pos(ops, "putImageData")
        /\ Pos(ops, "putImageData") < Pos(ops, "drawBackground")
        /\ Pos(ops, "drawBackground") < Pos(ops, "drawClone")
        /\ SelectSeq(ops, IsOutputDraw) = <<"drawBackground", "drawClone">>
        /\ \A p \in Pixels : \A ch \in 0..3 :
              At(outputCanvas, 4 * p + ch) =
                 IF At(cloneCanvas, 4 * p + 3) = 0
                 THEN At(BackgroundPixels, 4 * p + ch)
                 ELSE At(cloneCanvas, 4 * p + ch)

\* C6 witness: a completed call left a background pixel and a camera pixel
\* on the output canvas
CompositeSeen ==
    /\ page = "index"
    /\ Has(ops, "readFlag")
    /\ \E p \in Pixels : At(outputCanvas, 4 * p) = BackgroundColour[1]
    /\ \E p \in Pixels : At(outputCanvas, 4 * p) # BackgroundColour[1]

\* C7: the step that completes a renderCanvas call adds exactly one worker
\* timer of 30 ms when processCanvas is true and none when it is false, and
\* reads the flag after all the draws of the call.
ConditionalReschedule ==
    [][(page = "index" /\ Len(rcAwaiting') < Len(rcAwaiting)) =>
          /\ processCanvas => rcTimers' = Append(rcTimers, 30)
          /\ ~processCanvas => rcTimers' = rcTimers
          /\ Has(ops', "readFlag")
          /\ \A i \in 1..Len(ops') :
                (IsOutputDraw(ops'[i]) \/ ops'[i] = "drawVideo")
                    => i < Pos(ops', "readFlag")]_vars

\* C7 witness: a call completed with the flag cleared and set no timer
CompletedWithoutTimer ==
    /\ page = "index"
    /\ ~processCanvas
    /\ Len(ops) > 1 /\ ops[Len(ops)] = "readFlag"
    /\ rcTimers = <<>>
    /\ rcAwaiting = <<>>

\* C8: while stop() has not been called, a completed renderCanvas call is
\* always followed by another call, in a visible and in a hidden tab alike.
LoopKeepsRunning ==
    (page = "index" /\ Has(ops, "readFlag") /\ ~stopCalled)
        ~> (rcAwaiting # <<>> \/ stopCalled)

\* C8 witness: in a hidden tab a further call is running after a completed one
HiddenTabIteration ==
    /\ page = "index"
    /\ ~tabVisible
    /\ ~stopCalled
    /\ rcAwaiting # <<>>
    /\ segmentation # <<>>

\* C9: without a 'videoinput' device initCanvasPublisher is rejected with
\* 'Could not get video device'; getUserMedia is never requested,
\* processCanvas stays false, no renderCanvas call runs, no publisher is
\* made or published, and the chain is not run again.
NoDeviceFailsFast ==
    /\ []((page = "index" /\ ~videoInput) =>
            /\ mountedPc \in {"unmounted", "enumerateDevices", "rejected"}
            /\ mountedPc = "rejected" => mountError = "Could not get video device"
            /\ gumRequests = 0
            /\ srcObject = 0
            /\ ~processCanvas
            /\ startPc = "idle"
            /\ rcAwaiting = <<>> /\ rcTimers = <<>> /\ ops = <<>>
            /\ publisher = "null"
            /\ publishCalls = <<>>)
    /\ [][(page = "index" /\ ~videoInput /\ mountedPc = "rejected")
            => mountedPc' = "rejected"]_vars

\* C9 witness: mounted() was rejected for the missing device
NoDeviceRejected ==
    /\ page = "index"
    /\ ~videoInput
    /\ mountedPc = "rejected"
    /\ mountError = "Could not get video device"

\* C10: when the 2d context of the output canvas or of its clone cannot be
\* obtained, no publisher is made, session.publish is not called and the
\* loop never starts.
NoContextAbortsMount ==
    (/\ page = "index"
     /\ startError \in {"Could not get canvas context to start canvas rendering",
                        "Unable to clone canvas context"})
    => /\ publisher = "null"
       /\ publishCalls = <<>>
       /\ ~processCanvas
       /\ rcAwaiting = <<>> /\ rcTimers = <<>>

\* C11: with any of API_KEY, SESSION_ID and OT_TOKEN missing start() throws
\* 'Could not get env tokens' and no session is initialised; a connect
\* callback with an error raises an alert and leaves Index.session and the
\* unmounted CanvasPublisher as they were, the failed connect is not tried
\* again, and Index.session changes only to a session whose connect callback
\* came without an error; CanvasPublisher is mounted only with a session.
BootstrapFailsFast ==
    /\ []((page = "index" /\ envTokens # Tokens) =>
            /\ sessions = <<>>
            /\ session = 0
            /\ alerts = 0)
    /\ []((page = "index" /\ session = 0) => mountedPc = "unmounted")
    /\ [][(page = "index" /\ IndexStart /\ envTokens # Tokens) => envError']_vars
    /\ [][\A i \in 1..Len(sessions) :
            (i \in 1..Len(sessions') /\ sessions[i] = "connecting"
                                     /\ sessions'[i] = "failed")
            => /\ alerts' = alerts + 1
               /\ session' = session
               /\ mountedPc' = mountedPc]_vars
    /\ [][\A i \in 1..Len(sessions) :
            sessions[i] = "failed" => sessions'[i] = "failed"]_vars
    /\ [][session' # session =>
            /\ session' \in 1..Len(sessions)
            /\ sessions[session'] = "connecting"
            /\ sessions'[session'] = "connected"]_vars

\* C11 witness: a connect callback reported an error, an alert was raised,
\* and the page has no session and no CanvasPublisher
ConnectErrorAlerted ==
    /\ page = "index"
    /\ alerts = 1
    /\ Has(sessions, "failed")
    /\ session = 0
    /\ mountedPc = "unmounted"

\* C12: stop() does not cancel a renderCanvas call that is awaiting
\* segmentPerson: the call stays in flight, and the step that resumes it
\* draws the video frame on the clone and the background and the clone on
\* the output canvas, reads the flag after these draws and sets no timer.
InFlightCallCompletes ==
    /\ []((page = "index" /\ stopInFlight > 0 /\ doneAfterStop = 0) =>
            /\ Len(rcAwaiting) = stopInFlight
            /\ ~processCanvas)
    /\ [][(page = "index" /\ stopInFlight > 0
                          /\ Len(rcAwaiting') < Len(rcAwaiting)) =>
            /\ ops'[Len(ops')] = "readFlag"
            /\ \A o \in {"drawVideo", "drawBackground", "drawClone"} :
                  Has(ops', o) /\ Pos(ops', o) < Pos(ops', "readFlag")
            /\ \A p \in Pixels : \A ch \in 0..2 :
                  At(cloneCanvas', 4 * p + ch) = At(Opaque(videoFrame), 4 * p + ch)
            /\ \A p \in Pixels : \A ch \in 0..3 :
                  At(outputCanvas', 4 * p + ch) =
                     IF At(cloneCanvas', 4 * p + 3) = 0
                     THEN At(BackgroundPixels, 4 * p + ch)
                     ELSE At(cloneCanvas', 4 * p + ch)
            /\ rcTimers' = <<>>
            /\ rcAwaiting' = <<>>]_vars

\* C12 witness: stop() ran while a call was awaiting segmentPerson, and that
\* call has since completed without setting a timer
StoppedCallCompleted ==
    /\ page = "index"
    /\ stopInFlight = 1
    /\ doneAfterStop = 1
    /\ ops[Len(ops)] = "readFlag"
    /\ outputCanvas # EmptyCanvas
    /\ rcTimers = <<>>
    /\ rcAwaiting = <<>>

\* C14: the compositing loop is one callback chain: at every moment there
\* is at most one pending worker timer or one renderCanvas call in flight,
\* never both and never two, and the step that reads processCanvas completes
\* the only call there is.
SingleCallbackChain ==
    /\ [](page = "index" => Len(rcTimers) + Len(rcAwaiting) <= 1)
    /\ [][(page = "index" /\ Len(rcAwaiting') < Len(rcAwaiting)) =>
            /\ ops'[Len(ops')] \in {"readFlag", "setTimeout"}
            /\ rcTimers = <<>>
            /\ Len(rcAwaiting) = 1
            /\ rcAwaiting' = <<>>
            /\ Len(rcTimers') <= 1]_vars

\* C14 witness: the chain is at its pending worker timer after a completed
\* call, with no call in flight, and stop() has not been called
ChainAtTimer ==
    /\ page = "index"
    /\ ~stopCalled
    /\ processCanvas
    /\ Len(rcTimers) = 1
    /\ rcAwaiting = <<>>
    /\ ops[Len(ops)] = "setTimeout"

\* C15: session.publish is called at most once per mount and exactly once
\* when mounted() has completed; the publisher it is given was initialised
\* with the video track captured from the output canvas, and by then the
\* camera stream is attached to localVideo and both 'play' and 'loadeddata'
\* have fired.
PublishOnceAfterVideoReady ==
    page = "index" =>
        /\ Len(publishCalls) <= 1
        /\ (mountedPc = "done") = (Len(publishCalls) = 1)
        /\ (publisher = "null") = (publishCalls = <<>>)
        /\ (publisher = "null") = (videoSource = "none")
        /\ publishCalls # <<>> =>
              /\ videoSource = "outputCanvas"
              /\ publishCalls[1] \in 1..Len(sessions)
              /\ srcObject # 0
              /\ playFired
              /\ loadeddataFired

\* C15 witness: the publisher made from the canvas track has been published
PublishedCanvasTrack ==
    /\ page = "index"
    /\ publishCalls = <<1>>
    /\ publisher = "live"
    /\ videoSource = "outputCanvas"
    /\ playFired /\ loadeddataFired

\* C16: the frame a renderCanvas call draws on the clone after segmentPerson
\* resolved, and then masks, is the frame the call gave to segmentPerson.
MaskOnSegmentedFrame ==
    [][(page = "index" /\ Len(rcAwaiting') < Len(rcAwaiting)) =>
          pixelsRead' = Opaque(Head(rcAwaiting))]_vars

\* C17: once stop() has been called processCanvas is never true again,
\* whatever part of the mounted() chain is still to run, so no renderCanvas
\* call is made after a stop() that came before the loop started.
StopNeverUndone ==
    /\ []((page = "index" /\ stopCalled) => ~processCanvas)
    /\ [][(page = "index" /\ stopCalled /\ rcAwaiting = <<>> /\ rcTimers = <<>>)
            => rcAwaiting' = <<>>]_vars

\* C18: after stop() no publisher is made or published that is not also
\* destroyed: once stop() has run and the mounted() chain has finished there
\* is no live publisher, and session.publish is not called on a session
\* that was disconnected.
NoPublisherSurvivesStop ==
    /\ []((/\ page = "index"
           /\ stopCalled
           /\ mountedPc \in {"done", "rejected"}
           /\ startPc # "load") => publisher # "live")
    /\ [][(page = "index" /\ publishCalls' # publishCalls) =>
            sessions[publishCalls'[Len(publishCalls')]] # "disconnected"]_vars

\* C19: on the recorder page at most one chain of renderCanvas worker timers
\* is alive at any time.
OneRecorderRenderLoop ==
    page = "videoRecorder" => Len(rcTimers) <= 1

\* C13: a startRecording call sets recordingStatus to 'stopped' and points
\* the playback source and the download link to its blob only after its
\* recorder's stop event fired and its 30 s timer elapsed; the blob holds
\* every chunk ondataavailable delivered, in arrival order; and
\* recordingStatus is 'started' from the call until then.
RecordingExposedOnStop ==
    page = "videoRecorder" =>
        /\ \A c \in 1..Len(recordings) :
              /\ recordings[c].pc = "awaiting" => recordingStatus = "started"
              /\ recordings[c].pc = "done" =>
                    /\ recordings[c].stopped = "resolved"
                    /\ recordings[c].recorded
                    /\ recordings[c].timer = <<>>
        /\ (recordingStatus = "initial") = (recordings = <<>>)
        /\ recordingStatus = "stopped" =>
              \E c \in 1..Len(recordings) : recordings[c].pc = "done"
        /\ downloadHref = recordingSrc
        /\ downloadHref # NoBlob =>
              /\ downloadHref.call \in 1..Len(recordings)
              /\ recordings[downloadHref.call].pc = "done"
              /\ downloadHref.parts =
                    [k \in 1..recordings[downloadHref.call].emitted |-> k]

\* C20: every startRecording call ends: once recordingStatus is 'started' it
\* becomes 'stopped', also when the recorder fires 'error' before the timer;
\* and recorder.stop() is never called on an inactive recorder.
RecordingAlwaysEnds ==
    /\ [](page = "videoRecorder" =>
            \A c \in 1..Len(recordings) : ~recordings[c].stopThrew)
    /\ (page = "videoRecorder" /\ recordingStatus = "started")
            ~> (recordingStatus = "stopped")

\* C21: on the recorder page a stream is attached to localVideo whenever
\* mediaStreamStatus is 'started', so stopMediaStream never throws 'Could
\* not get local stream to stop'; the status only changes from 'initial' to
\* 'started', from 'started' to 'stopped' and from 'stopped' to 'started'.
MediaStreamStatusSound ==
    /\ [](page = "videoRecorder" =>
            /\ mediaStreamStatus = "started" => srcObject # 0
            /\ vrStopError = "none")
    /\ [][(page = "videoRecorder" /\ mediaStreamStatus' # mediaStreamStatus) =>
            <<mediaStreamStatus, mediaStreamStatus'>> \in
                {<<"initial", "started">>, <<"started", "stopped">>,
                 <<"stopped", "started">>}]_vars

\* C21 witness: the stream was stopped by toggleMediaStream and a later
\* initMediaStream attached a new one and set the status to 'started' again
MediaStreamRestarted ==
    /\ page = "videoRecorder"
    /\ mediaStreamStatus = "started"
    /\ srcObject = 2
    /\ AllEnded(streams[1])
    /\ ~AllEnded(streams[2])

\* C22: processCanvas becomes true, and the first renderCanvas call is
\* made, only in the step in which startCanvasRendering resumes from the
\* model load with the clone context obtained, after the camera stream was
\* attached, 'play' and 'loadeddata' both fired and the output context was
\* obtained; when a step of the chain fails processCanvas stays false and
\* no renderCanvas call is ever made.
LoopStartsInitialised ==
    /\ []((/\ page = "index"
           /\ \/ processCanvas
              \/ rcAwaiting # <<>> \/ rcTimers # <<>> \/ ops # <<>>) =>
            /\ srcObject # 0
            /\ playFired /\ loadeddataFired
            /\ mountedPc = "done"
            /\ startPc = "started"
            /\ startError = "none" /\ mountError = "none")
    /\ []((page = "index" /\ (mountedPc = "rejected" \/ startPc = "rejected")) =>
            /\ ~processCanvas
            /\ rcAwaiting = <<>> /\ rcTimers = <<>> /\ ops = <<>>)
    /\ [][(page = "index" /\ (mountedPc = "rejected" \/ startPc = "rejected")) =>
            /\ mountedPc = "rejected" => mountedPc' = "rejected"
            /\ startPc = "rejected" => startPc' = "rejected"]_vars
    /\ [][(page = "index" /\ ~processCanvas /\ processCanvas') =>
            /\ startPc = "load" /\ startPc' = "started"
            /\ rcAwaiting = <<>> /\ rcAwaiting' = <<videoFrame>>]_vars

\* C22 witness: the chain failed at the clone context after the camera
\* stream, both events, the output context and the model load had succeeded,
\* and the loop was not started
CloneContextFailed ==
    /\ page = "index"
    /\ startError = "Unable to clone canvas context"
    /\ srcObject # 0 /\ playFired /\ loadeddataFired
    /\ ~processCanvas
    /\ ops = <<>>

====
